---- MODULE Spec2Model ----
(***************************************************************************)
(* Model of the gosl numerical library: the Newton solver for nonlinear    *)
(* systems (num.NlSolver) and the ODE solver orchestrator (ode.Solver).    *)
(*                                                                         *)
(* Floating-point quantities are abstracted to small integer grids that    *)
(* keep the comparisons the code makes distinguishable:                    *)
(*   - fxMax (largest |f_i(x)|) in units where ftol is Ftol;               *)
(*   - Ldx (scaled RMS norm of the Newton increment) in units where the    *)
(*     Newton tolerance fnewt is FNewt.                                    *)
(* The values produced by the user callbacks and by the linear solver are  *)
(* inputs, drawn with \E from these grids.                                 *)
(***************************************************************************)
EXTENDS Integers, Sequences, FiniteSets, TLC

(***************************************************************************)
(* Bounds of the model                                                     *)
(***************************************************************************)
MaxMaxIt == 3      \* largest configured maxIt
MaxNeq == 2        \* largest number of equations
MaxNfv == 1        \* largest number of function evaluations of one line search
NmaxSS == 4        \* the configured maximum number of steps of one ode Solve
MaxPrms == 3       \* largest number of entries of a map of parameters
MaxNit == 2        \* the configured maximum number of Newton iterations of a step
MaxEdges == 3      \* largest number of edges of a graph
MaxFeatures == 1   \* largest number of components of a vector theta

(***************************************************************************)
(* Value grids                                                             *)
(***************************************************************************)
Ftol == 1                              \* fxMax < Ftol  <=>  fxMax = 0
FNewt == 100                           \* Ldx < FNewt   <=>  converged on Ldx
FxVals == {0, 1}
LdxVals == {99, 198, 199, 200}
MaxItVals == (0 - 1) .. MaxMaxIt       \* maxIt = int(v): any integer
NeqVals == 1 .. MaxNeq

\* the parameters NlSolver.Init accepts, and one name it does not know
PrmKeys ==
    {"cteJac", "linSearch", "linSchMaxIt", "maxIt", "chkConv", "atol", "rtol",
     "ftol"}
AllKeys == PrmKeys \cup {"maxit"}
\* the float64 values of a map of parameters, in halves: -1, 0 and 1.5; for a
\* tolerance the unit is half its default value
PrmValues == {0 - 2, 0, 3}
DefMaxIt == 20                         \* "maxIt" = 20
DefLinSchMaxIt == 20                   \* "linSchMaxIt" = 20
DefTol == 2                            \* atol, rtol, ftol: 1 (times the default)

\* x and h of the ODE solver are counted in ticks: a step can shrink by 1/4 at
\* each of the NmaxSS attempts and stay a whole number of ticks
Tick == 4 ^ NmaxSS
X0Vals == {0, Tick}
XfVals == {2 * Tick, 3 * Tick}
IniHVals == {Tick, 4 * Tick}
\* spacings of the dense output: several points in a step, or none
DxVals == {Tick \div 2, 2 * Tick}
\* scaled error estimates: 0 (far below 1), 1 (exactly 1), 2 (above 1),
\* 3 (far above 1)
ErrVals == 0 .. 3
Methods == {"fweuler", "bweuler", "moeuler", "dopri5", "radau5"}

\* the graphs: at most MaxEdges edges between the vertices GraphVerts, each
\* with one of the weights WeightVals
GraphVerts == {0, 1, 2}
WeightVals == {0, 1}
\* the distributed Jacobian: Ndim rows and columns, at most MaxSz workers
Ndim == 6
MaxSz == 6
\* the values of the parameters of ParamsReg, and the vectors theta
PrmVals == {0, 1}
ThetaVecs == UNION {[1 .. n -> PrmVals] : n \in 0 .. MaxFeatures + 1}
\* math.MaxFloat64, the distance between vertices that are not connected: far
\* above the weight of any path
MaxFloat64 == 1000

VARIABLES
    nls,        \* the NlSolver object: fields of the struct
    nlsPc,      \* "new" | "idle" | "loop" | "after" | "done"
    nlsLoc,     \* locals of Solve: Ldx, LdxPrev, fxMax, and the typ of the
                \* convergence message ("" when no test has passed)
    nlsRes,     \* how the last Solve ended: "none" | "ok" | "cannot converge"
                \* | "diverging"
    nlsIters,   \* history: loop bodies entered in the current Solve call
    nlsPrms,    \* history: the map of parameters given to Init
    nlsHist,    \* history: the callbacks given to Init; the work of the
                \* current Solve call (residual and Jacobian evaluations,
                \* factorisations, updates of x, calls of Out); the handle of
                \* the sparse linear solver o.lis and the calls made on it
    sol,        \* the ode Solver: configuration and integration state
    solPc,      \* "New" | "Idle" | "Stepping" | "Accepted" | "Rejected"
                \* | "Converged" | "Failed"
    Stat,       \* sol.Stat: the statistics counters
    att,        \* the step attempt in flight: how it ended, its error estimate
    solAtts,    \* history: step attempts started in the current Solve call
    solFails,   \* history: attempts of the current Solve call in which the
                \* corrector did not converge
    Out,        \* sol.Out: the saved step output, the saved dense output and
                \* the next point of the dense output
    solLive,    \* history: the (istep, xout, yout) the dense-output callback
                \* was called with
    graph,      \* the graph.Graph object: Edges, WeightsE, Dist, Next
    gPc,        \* "new" | "ready" | "solved" | "panic"
    gPath,      \* the last call of Path: its arguments, the path returned
    gAdj,       \* the last call of GetAdjacency: xadj and adjncy returned
                \* and how the call ended
    pr,         \* the ml.ParamsReg object: the parameters and their backup
    prPc,       \* "new" | "ready" | "panic"
    prLast,     \* history: the kind of the last method called ("init", "backup",
                \* "restore", "set", "get") and its skipNotification
    prNote,     \* history: the calls of NotifyUpdate made by the last method,
                \* and the parameters the observers found at the last of them
    prBkp,      \* history: the parameters at the time of the last Backup
    jac,        \* the distributed assembly of a Jacobian: the number of
                \* workers, those that have called Jfcn, and for each entry the
                \* number of Put calls and the sum of the values put
    jacPc       \* "new" | "assembling" | "gathered" | "returned"

nlsVars == <<nls, nlsPc, nlsLoc, nlsRes, nlsIters, nlsPrms, nlsHist>>
odeVars == <<sol, solPc, Stat, att, solAtts, solFails, Out, solLive>>
graphVars == <<graph, gPc, gPath, gAdj>>
prVars == <<pr, prPc, prLast, prNote, prBkp>>
jacVars == <<jac, jacPc>>
vars ==
    <<nls, nlsPc, nlsLoc, nlsRes, nlsIters, nlsPrms, nlsHist,
      sol, solPc, Stat, att, solAtts, solFails, Out, solLive,
      graph, gPc, gPath, gAdj,
      pr, prPc, prLast, prNote, prBkp,
      jac, jacPc>>

(***************************************************************************)
(* num.NlSolver                                                            *)
(***************************************************************************)

\* the zero value of the struct (var nls NlSolver)
NlsZero ==
    [cteJac |-> FALSE, linSearch |-> FALSE, linSchMaxIt |-> 0, maxIt |-> 0,
     chkConv |-> FALSE, atol |-> 0, rtol |-> 0, ftol |-> 0, fnewt |-> "zero",
     neq |-> 0, useDn |-> FALSE, numJ |-> FALSE, lsReady |-> FALSE,
     It |-> 0, NFeval |-> 0, NJeval |-> 0]

LocZero == [Ldx |-> 0, LdxPrev |-> 0, fxMax |-> 0, conv |-> ""]

\* the work of a Solve call that has done nothing yet: fx0 is max|f_i(x)| on
\* entry, nfvs the evaluations made by the line searches, jacs the Jacobian
\* evaluations, facts the factorisations, updates the updates of x, outs the
\* calls of Out, lisCalls the iterations that called o.lis.Fact and
\* o.lis.Solve, acqs the calls of o.lis.Init
WorkZero ==
    [fx0 |-> 0, nfvs |-> 0, jacs |-> 0, facts |-> 0, updates |-> 0, outs |-> 0,
     lisCalls |-> 0, acqs |-> 0]

\* lis: the handle o.lis is "none" (never initialised), "acquired" (lis.Init)
\* or "released" (lis.Free); lisDim: the neq it was initialised with; lisOn:
\* the states of the handle at the calls of Fact and Solve made so far
HistZero ==
    [hasJfcnSp |-> FALSE, hasOut |-> FALSE, numJArg |-> FALSE, work |-> WorkZero,
     lis |-> "none", lisDim |-> 0, lisOn |-> {}]

\* a nil map of parameters
NoPrms == [k \in {} |-> 0]

\* int(v) of a float64 given in halves: truncation toward zero
ToInt(v) == IF v >= 0 THEN v \div 2 ELSE 0 - ((0 - v) \div 2)

\* the value of parameter k: the entry of prms if there is one, else def
PrmOr(prms, k, def) == IF k \in DOMAIN prms THEN prms[k] ELSE def

\* "set default values" and "read parameters": the fields of the solver that
\* the loop over prms assigns
ReadPrms(o, prms) ==
    [o EXCEPT !.cteJac = PrmOr(prms, "cteJac", 0 - 2) > 0,
              !.linSearch = PrmOr(prms, "linSearch", 0 - 2) > 0,
              !.linSchMaxIt = IF "linSchMaxIt" \in DOMAIN prms
                              THEN ToInt(prms["linSchMaxIt"]) ELSE DefLinSchMaxIt,
              !.maxIt = IF "maxIt" \in DOMAIN prms
                        THEN ToInt(prms["maxIt"]) ELSE DefMaxIt,
              !.chkConv = PrmOr(prms, "chkConv", 0 - 2) > 0]

\* fnewt = max(10*eps/Rtol, min(0.03, sqrt(Rtol))): a positive number for
\* Rtol > 0, +Inf for Rtol = 0 (10*eps/0), NaN for Rtol < 0 (sqrt)
FnewtOf(rtol) ==
    IF rtol > 0 THEN "pos" ELSE IF rtol = 0 THEN "inf" ELSE "nan"

\* SetTols: the tolerances are stored as given
SetTols(o, atol, rtol, ftol) ==
    [o EXCEPT !.atol = atol, !.rtol = rtol, !.ftol = ftol,
              !.fnewt = FnewtOf(rtol)]

\* faulty variant: a name that is not known is skipped
InvalidPrmsIgnored(prms) == FALSE

\* the loop over prms meets a name that no case of the switch accepts
InvalidPrms(prms) == ~(DOMAIN prms \subseteq PrmKeys)

\* Init: defaults overridden by prms, tolerances, callbacks, type of linear
\* solver. hasJfcnSp tells whether JfcnSp is non-nil. A name that is not
\* known panics inside the loop over prms, whose order is not specified: the
\* entries read before it are any part of the accepted ones.
NlsInit(neq, useDn, numJ, hasJfcnSp, hasOut, prms) ==
    /\ nlsPc \in {"new", "idle", "done"}
    /\ nlsHist' = [nlsHist EXCEPT !.hasJfcnSp = hasJfcnSp, !.hasOut = hasOut,
                                  !.numJArg = numJ]
    /\ IF InvalidPrms(prms)
       THEN /\ \E S \in SUBSET (DOMAIN prms \cap PrmKeys) :
                 nls' = ReadPrms(nls, [k \in S |-> prms[k]])
            /\ nlsPc' = "panic"
            /\ nlsRes' = "invalid parameter"
       ELSE /\ nls' = [SetTols(ReadPrms(nls, prms),
                               PrmOr(prms, "atol", DefTol),
                               PrmOr(prms, "rtol", DefTol),
                               PrmOr(prms, "ftol", DefTol))
                         EXCEPT !.neq = neq,
                                !.useDn = useDn,
                                !.numJ = IF ~useDn /\ ~hasJfcnSp THEN TRUE
                                         ELSE numJ]
            /\ nlsPc' = "idle"
            /\ nlsRes' = nlsRes
    /\ nlsPrms' = prms
    /\ UNCHANGED <<nlsLoc, nlsIters>>
    /\ UNCHANGED <<odeVars, graphVars, prVars, jacVars>>

\* faulty variant: the counters go on from the previous call
SolveBeginStatsAccumulate(o) == [o EXCEPT !.NFeval = o.NFeval + 1, !.It = 0]

\* Solve, up to the loop: scaling vector, fx := f(x), reset of the counters,
\* declaration of the locals, o.It = 0.
SolveBeginStats(o) == [o EXCEPT !.NFeval = 1, !.NJeval = 0, !.It = 0]

NlsSolveBegin ==
    /\ nlsPc \in {"idle", "done"}
    /\ \E fx0 \in FxVals :
          /\ nlsLoc' = [Ldx |-> 0, LdxPrev |-> 0, fxMax |-> fx0, conv |-> ""]
          /\ nlsHist' = [nlsHist EXCEPT !.work = [WorkZero EXCEPT !.fx0 = fx0]]
    /\ nls' = SolveBeginStats(nls)
    /\ nlsPc' = "loop"
    /\ nlsRes' = "none"
    /\ nlsIters' = 0
    /\ UNCHANGED nlsPrms
    /\ UNCHANGED <<odeVars, graphVars, prVars, jacVars>>

\* faulty variant: Θ >= 0.99
ThetaReaches(Ldx, LdxPrev) ==
    IF LdxPrev = 0 THEN Ldx > 0 ELSE 100 * Ldx >= 99 * LdxPrev

\* Θ = Ldx / LdxPrev > 0.99 in IEEE arithmetic (x/0 = +Inf for x > 0, 0/0 = NaN)
ThetaExceeds(Ldx, LdxPrev) ==
    IF LdxPrev = 0 THEN Ldx > 0 ELSE 100 * Ldx > 99 * LdxPrev

\* the check of the convergence rate that ends an iteration
RateCheckPanics(o, Ldx, LdxPrev) ==
    o.It > 0 /\ o.chkConv /\ ThetaExceeds(Ldx, LdxPrev)

\* end of one loop body that met no convergence test: rate check, then It++
NlsEndOfBody(o, Ldx, fxMax) ==
    IF RateCheckPanics(o, Ldx, nlsLoc.LdxPrev)
    THEN /\ nls' = o
         /\ nlsLoc' = [nlsLoc EXCEPT !.Ldx = Ldx, !.fxMax = fxMax]
         /\ nlsPc' = "done"
         /\ nlsRes' = "diverging"
    ELSE /\ nls' = [o EXCEPT !.It = o.It + 1]
         /\ nlsLoc' = [nlsLoc EXCEPT !.Ldx = Ldx, !.LdxPrev = Ldx, !.fxMax = fxMax]
         /\ nlsPc' = "loop"
         /\ nlsRes' = nlsRes

\* a convergence test passed: break
NlsBreak(o, Ldx, fxMax, typ) ==
    /\ nls' = o
    /\ nlsLoc' = [nlsLoc EXCEPT !.Ldx = Ldx, !.fxMax = fxMax, !.conv = typ]
    /\ nlsPc' = "after"
    /\ nlsRes' = nlsRes

\* the Jacobian is evaluated at the first iteration, and at every iteration
\* unless cteJac
EvalJac(o) == o.It = 0 \/ ~o.cteJac

\* faulty variant: the numerical Jacobian is counted with the dense solver too
JacFevalsAnySolver(o) == IF EvalJac(o) /\ o.numJ THEN o.neq ELSE 0

\* the residual evaluations the code counts for "evaluate Jacobian @ x"
JacFevals(o) == IF EvalJac(o) /\ ~o.useDn /\ o.numJ THEN o.neq ELSE 0

\* faulty variant: the factorisation of a constant Jacobian is kept
FactorisesOnce(o) == EvalJac(o)

\* la.MatInv, o.lis.Fact(): "must be done for all iterations"
Factorises(o) == TRUE

\* the history of one loop body, from "output" to "fx := f(x) @ update x":
\* o is the solver when the body is entered
HistAfterUpdate(h, o) ==
    LET w == h.work
        acquire == ~o.useDn /\ ~o.lsReady
        lis1 == IF acquire THEN "acquired" ELSE h.lis
    IN  [h EXCEPT
            !.work = [w EXCEPT
                         !.outs = w.outs + (IF h.hasOut THEN 1 ELSE 0),
                         !.jacs = w.jacs + (IF EvalJac(o) THEN 1 ELSE 0),
                         !.facts = w.facts + (IF Factorises(o) THEN 1 ELSE 0),
                         !.lisCalls = w.lisCalls + (IF o.useDn THEN 0 ELSE 1),
                         !.acqs = w.acqs + (IF acquire THEN 1 ELSE 0),
                         !.updates = w.updates + 1],
            !.lis = lis1,
            !.lisDim = IF acquire THEN o.neq ELSE h.lisDim,
            !.lisOn = IF o.useDn THEN h.lisOn
                      ELSE h.lisOn \cup {IF lis1 = "acquired" /\ o.neq # (IF acquire THEN o.neq ELSE h.lisDim)
                                         THEN "other dimension" ELSE lis1}]

\* the evaluations of a line search
HistLineSearch(h, nfv) == [h EXCEPT !.work.nfvs = h.work.nfvs + nfv]

\* counters and solver state after "evaluate Jacobian", the linear solution,
\* "update x" and "fx := f(x) @ update x"
AfterUpdate(o) ==
    [o EXCEPT !.NFeval = o.NFeval + JacFevals(o) + 1,
              !.NJeval = o.NJeval + (IF EvalJac(o) THEN 1 ELSE 0),
              !.lsReady = IF o.useDn THEN o.lsReady ELSE TRUE]

\* fxMax < o.ftol, for fxMax >= 0 on the grid
FxConverged(o, fxMax) == o.ftol > 0 /\ fxMax < Ftol

\* faulty variant: Ldx is compared with twice fnewt
LdxConvergedLoose(o, Ldx) == o.fnewt = "pos" /\ Ldx < 2 * FNewt

\* Ldx < o.fnewt, for a finite Ldx on the grid (a comparison with NaN is false)
LdxConverged(o, Ldx) ==
    CASE o.fnewt = "pos" -> Ldx < FNewt
      [] o.fnewt = "inf" -> TRUE
      [] OTHER -> FALSE

\* one pass through the body of "for o.It = 0; o.It < o.maxIt; o.It++"
NlsIterate ==
    /\ nlsPc = "loop"
    /\ nls.It < nls.maxIt
    /\ nlsIters' = nlsIters + 1
    /\ UNCHANGED nlsPrms
    /\ UNCHANGED <<odeVars, graphVars, prVars, jacVars>>
    /\ IF FxConverged(nls, nlsLoc.fxMax)
       THEN /\ NlsBreak(nls, nlsLoc.Ldx, nlsLoc.fxMax, "fxMax(ini)")
            /\ UNCHANGED nlsHist
       ELSE \E Ldx1 \in LdxVals, fx1 \in FxVals :
              LET o1 == AfterUpdate(nls)
                  h1 == HistAfterUpdate(nlsHist, nls)
              IN
              IF FxConverged(o1, fx1)
              THEN NlsBreak(o1, Ldx1, fx1, "fxMax") /\ nlsHist' = h1
              ELSE IF LdxConverged(o1, Ldx1)
              THEN NlsBreak(o1, Ldx1, fx1, "Ldx") /\ nlsHist' = h1
              ELSE IF o1.linSearch
                   THEN \E nfv \in 0 .. MaxNfv, Ldx2 \in LdxVals, fx2 \in FxVals :
                          LET o2 == [o1 EXCEPT !.NFeval = o1.NFeval + nfv] IN
                          /\ nlsHist' = HistLineSearch(h1, nfv)
                          /\ IF LdxConverged(o2, Ldx2)
                             THEN NlsBreak(o2, Ldx2, fx2, "Ldx(linsrch)")
                             ELSE NlsEndOfBody(o2, Ldx2, fx2)
                   ELSE NlsEndOfBody(o1, Ldx1, fx1) /\ nlsHist' = h1


\* faulty variant: the last permitted iteration is taken for exhaustion
CannotConvergeOffByOne(o) == o.It >= o.maxIt - 1

\* after the loop: output callback, then the check o.It == o.maxIt
CannotConverge(o) == o.It = o.maxIt

\* faulty variant: no output after the loop
FinishOutsNone(h) == 0

\* "output" after the loop: o.Out(x) when Out is set
FinishOuts(h) == IF h.hasOut THEN 1 ELSE 0

NlsFinish ==
    /\ \/ nlsPc = "after"
       \/ nlsPc = "loop" /\ ~(nls.It < nls.maxIt)
    /\ nlsRes' = IF CannotConverge(nls) THEN "cannot converge" ELSE "ok"
    /\ nlsPc' = "done"
    /\ nlsHist' = [nlsHist EXCEPT !.work.outs = @ + FinishOuts(nlsHist)]
    /\ UNCHANGED <<nls, nlsLoc, nlsIters, nlsPrms>>
    /\ UNCHANGED <<odeVars, graphVars, prVars, jacVars>>

\* Free: with the sparse solver, o.lis.Free(), whatever the handle is
NlsFree ==
    /\ nlsPc \in {"idle", "done"}
    /\ nlsHist' = IF nls.useDn THEN nlsHist
                  ELSE [nlsHist EXCEPT !.lis = "released"]
    /\ UNCHANGED <<nls, nlsPc, nlsLoc, nlsRes, nlsIters, nlsPrms>>
    /\ UNCHANGED <<odeVars, graphVars, prVars, jacVars>>

(***************************************************************************)
(* ode.Solver: the orchestrator's state machine                            *)
(*   Idle -> Stepping -> {Accepted, Rejected} -> Stepping | Converged      *)
(*   | Failed                                                              *)
(***************************************************************************)

Min(a, b) == IF a < b THEN a ELSE b

SolZero ==
    [method |-> "", fixed |-> FALSE, IniH |-> 0, linear |-> FALSE,
     stepOut |-> FALSE, denseDx |-> 0,
     x0 |-> 0, xf |-> 0, x |-> 0, y |-> 0, h |-> 0, reject |-> FALSE]

StatZero ==
    [Nsteps |-> 0, Naccepted |-> 0, Nrejected |-> 0, Nfeval |-> 0, Njeval |-> 0,
     Ndecomp |-> 0, Nlinsol |-> 0, Nitmax |-> 0]

AttNone == [kind |-> "none", err |-> 0, h |-> 0]

OutZero == [Step |-> <<>>, Dense |-> <<>>, xout |-> 0]

\* implicit formulas use the Newton corrector
Implicit(method) == method \in {"bweuler", "radau5"}

\* forward and backward Euler run with a fixed step
FixedOnly(method) == method \in {"fweuler", "bweuler"}

\* NewConfig + NewSolver: the configuration is validated once, at construction.
\* linear tells whether the problem is the linear test problem (Hairer-Wanner
\* Eq. 1.1), on which the first Newton update of backward Euler is exact.
\* stepOut: SetStepOut(true, nil); denseDx: the spacing given to SetDenseOut,
\* 0 when the dense output is not requested.
OdeNewSolver(method, fixed, IniH, linear, stepOut, denseDx) ==
    /\ solPc = "New"
    /\ FixedOnly(method) => fixed
    /\ sol' = [sol EXCEPT !.method = method, !.fixed = fixed, !.IniH = IniH,
                          !.linear = linear, !.stepOut = stepOut,
                          !.denseDx = denseDx]
    /\ solPc' = "Idle"
    /\ UNCHANGED <<Stat, att, solAtts, solFails, Out, solLive>>
    /\ UNCHANGED <<nlsVars, graphVars, prVars, jacVars>>

\* Stat.Reset
StatReset(st) == StatZero

\* the value of the dense output at xout, inside the step that leads from
\* (xprev, yprev) to (xprev + h, yprev + 1), in multiples of 1 / Tick
DenseY(yprev, xprev, h, xout) == yprev * Tick + ((xout - xprev) * Tick) \div h

\* the output points xout, xout + dx, ... that are not beyond x
PointsUpTo(xout, dx, x) ==
    IF xout > x THEN <<>>
    ELSE [i \in 1 .. ((x - xout) \div dx + 1) |-> xout + (i - 1) * dx]

\* the dense output of accepted step number istep, which led from xprev to x:
\* one (istep, xout, yout) for every output point in the step
DenseOfStep(istep, yprev, xprev, h, xout, dx) ==
    LET pts == PointsUpTo(xout, dx, xprev + h)
    IN  [i \in 1 .. Len(pts) |-> <<istep, pts[i], DenseY(yprev, xprev, h, pts[i])>>]

\* faulty variant: only the last point of a step is saved
DenseSaveLast(dense, new) ==
    IF Len(new) = 0 THEN dense ELSE Append(dense, new[Len(new)])

\* the points of a step are saved in the order in which they are computed
DenseSave(dense, new) == dense \o new

\* faulty variant: an attempt is saved whether or not it was accepted
StepSaveOverwrite(step, x, y, h) ==
    IF Len(step) = 0 THEN <<<<x, y, h>>>>
    ELSE [step EXCEPT ![Len(step)] = <<x, y, h>>]

\* the accepted (x, y, h) is appended to the step output
StepSave(step, x, y, h) == Append(step, <<x, y, h>>)

\* Solve(y, x0, xf): reset of the statistics, initial step size; a new
\* output, whose dense part starts with the initial point
OdeSolve(x0, xf) ==
    /\ solPc \in {"Idle", "Converged", "Failed"}
    /\ x0 < xf
    /\ sol' = [sol EXCEPT !.x0 = x0, !.xf = xf, !.x = x0, !.y = 0,
                          !.h = Min(sol.IniH, xf - x0), !.reject = FALSE]
    /\ Stat' = StatReset(Stat)
    /\ att' = AttNone
    /\ solAtts' = 0
    /\ solFails' = 0
    /\ LET first == IF sol.denseDx > 0 THEN <<<<0, x0, 0>>>> ELSE <<>> IN
         /\ Out' = [Step |-> <<>>, Dense |-> DenseSave(<<>>, first),
                    xout |-> x0 + sol.denseDx]
         /\ solLive' = first
    /\ solPc' = "Stepping"
    /\ UNCHANGED <<nlsVars, graphVars, prVars, jacVars>>


\* faulty variant: one attempt too many
BudgetExhaustedLate(st) == st.Nsteps > NmaxSS

\* the step budget is used up
BudgetExhausted(st) == st.Nsteps >= NmaxSS


\* faulty variant: an error estimate of exactly 1 is rejected
ErrAcceptedStrict(err) == err < 1

\* the controller accepts a step iff its scaled error estimate is <= 1
ErrAccepted(err) == err <= 1


\* faulty variant: a failure of the corrector is counted as a rejection
StatNewtonFailedCounted(st) == [st EXCEPT !.Nrejected = st.Nrejected + 1]

\* an attempt abandoned because the corrector did not converge is counted in
\* Nsteps only (t_ode_test.go: 17 steps = 15 accepted + 1 rejected + 1)
StatNewtonFailed(st) == st


\* faulty variant: a rejection is not counted
StatRejectedNotCounted(st) == st

\* faulty variant: a rejection is counted twice
StatRejectedTwice(st) == [st EXCEPT !.Nrejected = st.Nrejected + 2]

StatRejected(st) == [st EXCEPT !.Nrejected = st.Nrejected + 1]

\* faulty variant: a step taken with a fixed h is counted as accepted
StatAcceptedAlways(st, fixed) == [st EXCEPT !.Naccepted = st.Naccepted + 1]

\* with a fixed step the controller is bypassed and nothing is counted as
\* accepted (t_fweuler_test.go: Nsteps = 40, Naccepted = 0)
StatAccepted(st, fixed) ==
    IF fixed THEN st ELSE [st EXCEPT !.Naccepted = st.Naccepted + 1]

StatStep(st) == [st EXCEPT !.Nsteps = st.Nsteps + 1]

Max(a, b) == IF a > b THEN a ELSE b

\* function evaluations of one attempt of an explicit formula: one for forward
\* Euler, two for the Euler/Heun pair, six new stages for Dormand-Prince
\* (t_ode_test.go: 40 for 40 steps, 425 for 212, 242 for 40)
StagesOf(method) ==
    CASE method = "fweuler" -> 1
      [] method = "moeuler" -> 2
      [] OTHER -> 6

\* evaluations made once, before the first attempt of the adaptive formulas
FevalsAtStart(method) ==
    CASE method = "moeuler" -> 1
      [] method = "dopri5" -> 2
      [] OTHER -> 0

\* faulty variant: the explicit driver is charged a Jacobian evaluation
WorkExplicitWithJac(st, method, first) ==
    [st EXCEPT !.Nfeval = st.Nfeval + StagesOf(method)
                            + (IF first THEN FevalsAtStart(method) ELSE 0),
               !.Njeval = st.Njeval + 1]

\* the work of one attempt of an explicit formula
WorkExplicit(st, method, first) ==
    [st EXCEPT !.Nfeval = st.Nfeval + StagesOf(method)
                            + (IF first THEN FevalsAtStart(method) ELSE 0)]

\* faulty variant: the Jacobian is not counted
WorkBwEulerNoJac(st, nit, converged) ==
    [st EXCEPT !.Nfeval = st.Nfeval + nit,
               !.Ndecomp = st.Ndecomp + (IF nit >= 2 \/ ~converged THEN 1 ELSE 0),
               !.Nlinsol = st.Nlinsol + (IF converged THEN nit - 1 ELSE nit),
               !.Nitmax = Max(st.Nitmax, nit)]

\* the work of one attempt of backward Euler: each of the nit iterations
\* evaluates the residual and, unless it has converged, solves the linear
\* system; the Jacobian is evaluated and decomposed once, before the first
\* linear solution of the step
WorkBwEuler(st, nit, converged) ==
    [st EXCEPT !.Nfeval = st.Nfeval + nit,
               !.Njeval = st.Njeval + (IF nit >= 2 \/ ~converged THEN 1 ELSE 0),
               !.Ndecomp = st.Ndecomp + (IF nit >= 2 \/ ~converged THEN 1 ELSE 0),
               !.Nlinsol = st.Nlinsol + (IF converged THEN nit - 1 ELSE nit),
               !.Nitmax = Max(st.Nitmax, nit)]

\* the work of one attempt of Radau5: f(x, y) unless the attempt retries a
\* failed one, three stage evaluations and one linear solution per iteration;
\* fresh tells what was renewed: nothing, the decomposition, or the Jacobian
\* and the decomposition
WorkRadau5(st, nit, fresh, retry) ==
    [st EXCEPT !.Nfeval = st.Nfeval + 3 * nit + (IF retry THEN 0 ELSE 1),
               !.Njeval = st.Njeval + (IF fresh = "jacdec" THEN 1 ELSE 0),
               !.Ndecomp = st.Ndecomp + (IF fresh = "none" THEN 0 ELSE 1),
               !.Nlinsol = st.Nlinsol + nit,
               !.Nitmax = Max(st.Nitmax, nit)]

\* the work of one attempt of the method driver
StatWork(st, s, nit, fresh, converged) ==
    CASE s.method = "bweuler" -> WorkBwEuler(st, nit, converged)
      [] s.method = "radau5" -> WorkRadau5(st, nit, fresh, s.reject)
      [] OTHER -> WorkExplicit(st, s.method, st.Nsteps = 0)

\* the numbers of Newton iterations an attempt may take: none for an explicit
\* formula, two for backward Euler on the linear test problem
NitsOf(s) ==
    IF ~Implicit(s.method) THEN {0}
    ELSE IF s.method = "bweuler" /\ s.linear THEN {2}
    ELSE 1 .. MaxNit

\* what an attempt of Radau5 renews: the Jacobian and its decomposition at the
\* first step and after the corrector failed, the decomposition alone when h
\* is not the h of the previous attempt, else nothing
FreshOf(s, st, a) ==
    IF s.method # "radau5" THEN "none"
    ELSE IF st.Nsteps = 0 \/ a.kind = "newton" THEN "jacdec"
    ELSE IF s.h # a.h THEN "dec"
    ELSE "none"

\* how the corrector may end: it cannot fail for an explicit formula nor on
\* the linear test problem
NewtonOf(s) ==
    IF ~Implicit(s.method) \/ (s.method = "bweuler" /\ s.linear) THEN {"ok"}
    ELSE {"ok", "failed", "fatal"}

\* Stepping: one pass of the top-level step loop: count the attempt, run the
\* method driver (and the corrector of an implicit method), decide
OdeStep ==
    /\ solPc = "Stepping"
    /\ UNCHANGED <<sol, Out, solLive>>
    /\ UNCHANGED <<nlsVars, graphVars, prVars, jacVars>>
    /\ IF BudgetExhausted(Stat)
       THEN /\ solPc' = "Failed"
            /\ UNCHANGED <<Stat, att, solAtts, solFails>>
       ELSE /\ solAtts' = solAtts + 1
            /\ \E newton \in NewtonOf(sol), err \in ErrVals, nit \in NitsOf(sol) :
                 LET fresh == FreshOf(sol, Stat, att) IN
                 /\ solFails' = solFails + (IF newton = "failed" THEN 1 ELSE 0)
                 /\ CASE newton = "fatal" ->
                           /\ nit = MaxNit
                           /\ solPc' = "Failed"
                           /\ Stat' = StatStep(Stat)
                           /\ att' = [kind |-> "fatal", err |-> 0, h |-> sol.h]
                      [] newton = "failed" ->
                           /\ nit = MaxNit
                           /\ solPc' = "Rejected"
                           /\ Stat' = StatNewtonFailed(
                                         StatStep(StatWork(Stat, sol, nit, fresh, FALSE)))
                           /\ att' = [kind |-> "newton", err |-> 0, h |-> sol.h]
                      [] newton = "ok" /\ (sol.fixed \/ ErrAccepted(err)) ->
                           /\ solPc' = "Accepted"
                           /\ Stat' = StatAccepted(
                                         StatStep(StatWork(Stat, sol, nit, fresh, TRUE)),
                                         sol.fixed)
                           /\ att' = [kind |-> "ok",
                                      err |-> IF sol.fixed THEN 0 ELSE err,
                                      h |-> sol.h]
                      [] OTHER ->
                           /\ solPc' = "Rejected"
                           /\ Stat' = StatRejected(
                                         StatStep(StatWork(Stat, sol, nit, fresh, TRUE)))
                           /\ att' = [kind |-> "error", err |-> err, h |-> sol.h]

\* h * clamp(safe * err^(-1/(order+1)), facmin, facmax), in quarters:
\* facmax = 2 (err far below 1), safe (err = 1), 1/2 (err above 1),
\* facmin = 1/4 (err far above 1); facmax is 1 after a rejection
FacQuarters(err, reject) ==
    LET f == CASE err = 0 -> 8 [] err = 1 -> 4 [] err = 2 -> 2 [] OTHER -> 1
    IN  IF reject THEN Min(f, 4) ELSE f


\* faulty variant: the last step is not shrunk
NextHNoLanding(x, xf, h, err, reject, fixed) ==
    IF fixed THEN h ELSE (h * FacQuarters(err, reject)) \div 4

\* the step that follows an accepted one, shrunk to land exactly on xf
NextH(x, xf, h, err, reject, fixed) ==
    LET hnew == IF fixed THEN h ELSE (h * FacQuarters(err, reject)) \div 4
    IN  Min(hnew, xf - x)

\* faulty variant: the test of the end of the interval is reversed
AcceptNextReversed(x1, xf) == IF x1 <= xf THEN "Converged" ELSE "Stepping"

\* after an accepted step: Converged at xf, otherwise the next step
AcceptNext(x1, xf) == IF x1 >= xf THEN "Converged" ELSE "Stepping"

\* Accepted: advance x, take over the new y, propose the next h
OdeAccept ==
    /\ solPc = "Accepted"
    /\ LET x1 == sol.x + sol.h IN
         /\ sol' = [sol EXCEPT !.x = x1, !.y = sol.y + 1,
                               !.h = IF x1 >= sol.xf THEN sol.h
                                     ELSE NextH(x1, sol.xf, sol.h, att.err,
                                                sol.reject, sol.fixed),
                               !.reject = FALSE]
         /\ solPc' = AcceptNext(x1, sol.xf)
         /\ LET new == IF sol.denseDx > 0
                        THEN DenseOfStep(sol.y + 1, sol.y, sol.x, sol.h,
                                         Out.xout, sol.denseDx)
                        ELSE <<>>
            IN  /\ Out' = [Step |-> IF sol.stepOut
                                    THEN StepSave(Out.Step, x1, sol.y + 1, sol.h)
                                    ELSE Out.Step,
                           Dense |-> DenseSave(Out.Dense, new),
                           xout |-> Out.xout + Len(new) * sol.denseDx]
                /\ solLive' = solLive \o new
    /\ UNCHANGED <<Stat, att, solAtts, solFails>>
    /\ UNCHANGED <<nlsVars, graphVars, prVars, jacVars>>

\* the step that retries a rejected one: halved when the corrector failed,
\* shrunk by the controller (facmax forced to 1) when the error was too large
RetryH(h, kind, err) ==
    IF kind = "newton" THEN h \div 2 ELSE (h * FacQuarters(err, TRUE)) \div 4

\* Rejected: shrink h, do not advance x, loop back (bounded by max steps)
OdeReject ==
    /\ solPc = "Rejected"
    /\ IF BudgetExhausted(Stat)
       THEN /\ solPc' = "Failed"
            /\ UNCHANGED sol
       ELSE /\ solPc' = "Stepping"
            /\ sol' = [sol EXCEPT !.h = RetryH(sol.h, att.kind, att.err),
                                  !.reject = TRUE]
    /\ UNCHANGED <<Stat, att, solAtts, solFails, Out, solLive>>
    /\ UNCHANGED <<nlsVars, graphVars, prVars, jacVars>>

\* solvers that save no output; the problems differ for backward Euler only
OdeNewSolverAny ==
    \E method \in Methods, fixed \in BOOLEAN, IniH \in IniHVals,
       linear \in BOOLEAN :
       /\ linear => method = "bweuler"
       /\ OdeNewSolver(method, fixed, IniH, linear, FALSE, 0)

\* solvers that save the step output and the dense output
OdeNewSolverOut ==
    \E method \in Methods, fixed \in BOOLEAN, IniH \in IniHVals, dx \in DxVals :
       OdeNewSolver(method, fixed, IniH, FALSE, TRUE, dx)

OdeSolveAny == \E x0 \in X0Vals, xf \in XfVals : OdeSolve(x0, xf)

\* maps that set the flags and the number of iterations and leave the
\* tolerances at their defaults
PrmsSolve ==
    [cteJac : {0 - 2, 2}, linSearch : {0 - 2, 2}, chkConv : {0 - 2, 2},
     maxIt : {2 * m : m \in MaxItVals}]

NlsInitAny ==
    /\ nlsPc = "new"
    /\ \E neq \in NeqVals, useDn \in BOOLEAN, numJ \in BOOLEAN, hasJfcnSp \in BOOLEAN,
          hasOut \in BOOLEAN, prms \in PrmsSolve :
          NlsInit(neq, useDn, numJ, hasJfcnSp, hasOut, prms)

\* maps of at most MaxPrms entries over the accepted names and the unknown one
PrmsAny ==
    UNION {[S -> PrmValues] : S \in {T \in SUBSET AllKeys : Cardinality(T) <= MaxPrms}}

NlsInitPrms ==
    /\ nlsPc = "new"
    /\ \E neq \in NeqVals, useDn \in BOOLEAN, prms \in PrmsAny :
          NlsInit(neq, useDn, FALSE, TRUE, FALSE, prms)

\* a program that keeps one solver for several problems: Init with a few
\* iterations allowed, Solve, Free, in any order and any number of times
PrmsLis == {[maxIt |-> 2 * m] : m \in 1 .. 2}

NlsInitLis ==
    \E neq \in NeqVals, useDn \in BOOLEAN, prms \in PrmsLis :
       NlsInit(neq, useDn, FALSE, TRUE, FALSE, prms)

NlsLisNext ==
    \/ NlsInitLis
    \/ NlsSolveBegin
    \/ NlsIterate
    \/ NlsFinish
    \/ NlsFree

(***************************************************************************)
(* graph.Graph                                                             *)
(***************************************************************************)

GraphZero ==
    [Edges |-> <<>>, WeightsE |-> <<>>, Shares |-> <<>>, nv |-> 0, Dist |-> <<>>, Next |-> <<>>]
AdjNone == [called |-> FALSE, xadj |-> <<>>, adjncy |-> <<>>]
PathNone == [called |-> FALSE, s |-> 0, t |-> 0, p |-> <<>>, end |-> "none"]

HashEdgeKey(i, j) == i + 10000001 * j

\* len(o.Shares): the number of vertices that appear in an edge
Nverts(edges) ==
    Cardinality({edges[k][1] : k \in 1 .. Len(edges)} \cup {edges[k][2] : k \in 1 .. Len(edges)})

\* utl.IntIntsMapAppend(m, key, item): appends item to the slice of key, a
\* new slice when the map has no such key
IntIntsMapAppend(m, key, item) ==
    IF key \in DOMAIN m THEN [m EXCEPT ![key] = Append(@, item)]
    ELSE m @@ (key :> <<item>>)

\* the loop of Init over the edges from the k-th on: Shares[vid] lists the
\* indices, counted from 0, of the edges that have vid at either end
RECURSIVE SharesLoop(_, _, _)
SharesLoop(edges, k, shares) ==
    IF k > Len(edges) THEN shares
    ELSE SharesLoop(edges, k + 1,
                    IntIntsMapAppend(IntIntsMapAppend(shares, edges[k][1], k - 1),
                                     edges[k][2], k - 1))

\* o.Shares[vid]: nil for a vertex the map does not have
SharesAt(shares, vid) == IF vid \in DOMAIN shares THEN shares[vid] ELSE <<>>

\* utl.Alloc, utl.IntAlloc: an nv by nv table of zeros
MatAlloc(nv) == [ij \in (0 .. nv - 1) \X (0 .. nv - 1) |-> 0]

\* Init; WeightsE = <<>> stands for nil, Verts and WeightsV are nil
GraphInit(edges, weightsE) ==
    /\ gPc = "new"
    /\ graph' = [Edges |-> edges, WeightsE |-> weightsE,
                 Shares |-> SharesLoop(edges, 1, <<>>), nv |-> Nverts(edges),
                 Dist |-> MatAlloc(Nverts(edges)), Next |-> MatAlloc(Nverts(edges))]
    /\ gPc' = "ready"
    /\ gPath' = PathNone
    /\ gAdj' = AdjNone
    /\ UNCHANGED <<nlsVars, odeVars, prVars, jacVars>>

\* the sum of two float64 distances: MaxFloat64 absorbs a weight, and the sum
\* of two MaxFloat64 is +Inf, written 2 * MaxFloat64
AddF(a, b) ==
    IF a >= MaxFloat64 /\ b >= MaxFloat64 THEN 2 * MaxFloat64
    ELSE IF a >= MaxFloat64 \/ b >= MaxFloat64 THEN MaxFloat64
    ELSE a + b

\* the length d of edge k in CalcDist (Verts = nil)
EdgeDist(g, k) == IF g.WeightsE = <<>> THEN 1 ELSE 1 * g.WeightsE[k]

NextOfEdgeSource(i, j) == i
NextOfEdge(i, j) == j

\* the loop of CalcDist over the edges, from edge k on
RECURSIVE CalcDistEdges(_, _, _)
CalcDistEdges(g, k, m) ==
    IF k > Len(g.Edges) THEN m
    ELSE LET i == g.Edges[k][1]
             j == g.Edges[k][2]
             d == EdgeDist(g, k)
         IN  IF i >= g.nv \/ j >= g.nv
             THEN [m EXCEPT !.ok = "index out of range"]
             ELSE LET m2 == [m EXCEPT !.Dist[<<i, j>>] = d,
                                      !.Next[<<i, j>>] = NextOfEdge(i, j)]
                  IN  IF d < 0
                      THEN [m2 EXCEPT !.ok = "distance cannot be negative"]
                      ELSE CalcDistEdges(g, k + 1, m2)

CalcDist(g) ==
    CalcDistEdges(g, 1,
        [Dist |-> [ij \in DOMAIN g.Dist |-> IF ij[1] = ij[2] THEN 0 ELSE MaxFloat64],
         Next |-> [ij \in DOMAIN g.Next |-> 0 - 1],
         ok |-> "ok"])

FwImprovesReversed(dij, sum) == dij < sum
FwImproves(dij, sum) == dij > sum

\* the three loops of ShortestPaths, from the n-th body on: n counts the
\* triples (k, i, j) in the order of the loops
RECURSIVE FwLoop(_, _, _)
FwLoop(nv, n, m) ==
    IF n >= nv * nv * nv THEN m
    ELSE LET k == n \div (nv * nv)
             i == (n \div nv) % nv
             j == n % nv
             sum == AddF(m.Dist[<<i, k>>], m.Dist[<<k, j>>])
         IN  IF FwImproves(m.Dist[<<i, j>>], sum)
             THEN FwLoop(nv, n + 1, [m EXCEPT !.Dist[<<i, j>>] = sum,
                                              !.Next[<<i, j>>] = m.Next[<<i, k>>]])
             ELSE FwLoop(nv, n + 1, m)

ShortestPaths(method) ==
    /\ gPc \in {"ready", "solved"}
    /\ IF method # "FW"
       THEN /\ gPc' = "panic"
            /\ graph' = graph
       ELSE LET m == CalcDist(graph)
                r == FwLoop(graph.nv, 0, m)
            IN  IF m.ok # "ok"
                THEN /\ gPc' = "panic"
                     /\ graph' = [graph EXCEPT !.Dist = m.Dist, !.Next = m.Next]
                ELSE /\ gPc' = "solved"
                     /\ graph' = [graph EXCEPT !.Dist = r.Dist, !.Next = r.Next]
    /\ gPath' = PathNone
    /\ UNCHANGED gAdj
    /\ UNCHANGED <<nlsVars, odeVars, prVars, jacVars>>

\* the loop of Path; a path of more than nv vertices passes twice by a vertex
\* and the loop, whose state is u, never ends; after Next gave -1 the next
\* read of Next is out of range
RECURSIVE PathLoop(_, _, _, _)
PathLoop(g, u, t, p) ==
    IF u = t THEN [p |-> p, end |-> "ok"]
    ELSE IF Len(p) > g.nv THEN [p |-> p, end |-> "never ends"]
    ELSE IF g.Next[<<u, t>>] < 0
         THEN [p |-> Append(p, g.Next[<<u, t>>]), end |-> "index out of range"]
         ELSE PathLoop(g, g.Next[<<u, t>>], t, Append(p, g.Next[<<u, t>>]))

PathOf(g, s, t) ==
    IF g.Next[<<s, t>>] < 0 THEN [p |-> <<>>, end |-> "ok"]
    ELSE PathLoop(g, s, t, <<s>>)

\* Path, called after ShortestPaths
Path(s, t) ==
    /\ gPc = "solved"
    /\ s < graph.nv /\ t < graph.nv
    /\ gPath' = [called |-> TRUE, s |-> s, t |-> t,
                 p |-> PathOf(graph, s, t).p, end |-> PathOf(graph, s, t).end]
    /\ UNCHANGED <<graph, gPc, gAdj>>
    /\ UNCHANGED <<nlsVars, odeVars, prVars, jacVars>>

\* the lists of edges: the loop of CalcDist gives the same tables for two
\* orders of the edges unless they change the order of two edges between the
\* same vertices, so the lists are taken in the order of their keys
EdgeLists ==
    UNION {{es \in [1 .. n -> GraphVerts \X GraphVerts] :
               \A k \in 1 .. n - 1 :
                   HashEdgeKey(es[k][1], es[k][2]) <= HashEdgeKey(es[k + 1][1], es[k + 1][2])} :
           n \in 1 .. MaxEdges}

GraphInitAny ==
    /\ gPc = "new"
    /\ \E edges \in EdgeLists :
           \E weightsE \in {<<>>} \cup [1 .. Len(edges) -> WeightVals] :
               GraphInit(edges, weightsE)

\* faulty variant: the first vertex of the edge, whichever vid is
OtherVidFirst(edge, vid) == edge[1]

\* otherVid: the first vertex of the edge, the second when the first is vid
OtherVid(edge, vid) == IF edge[1] = vid THEN edge[2] ELSE edge[1]

\* the loop over the edges of vid: adjncy[k], adjncy[k+1], ... receive the
\* other vertex of each edge; k counts from 0
AdjFill(o, vid, edges, adjncy, k) ==
    [i \in 1 .. Len(adjncy) |->
        IF k < i /\ i <= k + Len(edges)
        THEN OtherVid(o.Edges[edges[i - k] + 1], vid)
        ELSE adjncy[i]]

\* the loop over the vertices from vid on; xadj[1+vid] of the code is
\* xadj[2 + vid] here
RECURSIVE AdjLoop(_, _, _, _, _)
AdjLoop(o, vid, xadj, adjncy, k) ==
    IF vid >= o.nv THEN [called |-> TRUE, xadj |-> xadj, adjncy |-> adjncy]
    ELSE LET edges == SharesAt(o.Shares, vid)
         IN  AdjLoop(o, vid + 1,
                     [xadj EXCEPT ![2 + vid] = xadj[1 + vid] + Len(edges)],
                     AdjFill(o, vid, edges, adjncy, k),
                     k + Len(edges))

\* szadj: the sum of len(o.Shares[vid]) over vid < nv
RECURSIVE Szadj(_, _)
Szadj(o, vid) ==
    IF vid >= o.nv THEN 0 ELSE Len(SharesAt(o.Shares, vid)) + Szadj(o, vid + 1)

GetAdjacency ==
    /\ gPc # "new"
    /\ ~gAdj.called
    /\ gAdj' = AdjLoop(graph, 0, [i \in 1 .. graph.nv + 1 |-> 0],
                       [i \in 1 .. Szadj(graph, 0) |-> 0], 0)
    /\ UNCHANGED <<graph, gPc, gPath>>
    /\ UNCHANGED <<nlsVars, odeVars, prVars, jacVars>>

\* every list of edges, in any order
GraphInitAdj ==
    /\ gPc = "new"
    /\ \E n \in 1 .. MaxEdges :
           \E edges \in [1 .. n -> GraphVerts \X GraphVerts] : GraphInit(edges, <<>>)

ShortestPathsAny == \E method \in {"FW", "Dijkstra"} : ShortestPaths(method)

PathAny == \E s \in GraphVerts, t \in GraphVerts : Path(s, t)

(***************************************************************************)
(* ml.ParamsReg                                                            *)
(***************************************************************************)

ParamsRegZero ==
    [theta |-> <<>>, bias |-> 0, lambda |-> 0, degree |-> 0,
     bkpTheta |-> <<>>, bkpBias |-> 0, bkpLambda |-> 0, bkpDegree |-> 0]

\* the four parameters of o
Params(o) == [theta |-> o.theta, bias |-> o.bias, lambda |-> o.lambda, degree |-> o.degree]

CallNone == [kind |-> "none", skip |-> FALSE]
NoteZero == [n |-> 0, seen |-> Params(ParamsRegZero)]
BkpNone == [taken |-> FALSE, params |-> Params(ParamsRegZero)]

\* la.NewVector(n): n zeros
NewVector(n) == [i \in 1 .. n |-> 0]

\* copy(dst, src) of Go: the first min(len(dst), len(src)) components
Copy(dst, src) == [i \in 1 .. Len(dst) |-> IF i <= Len(src) THEN src[i] ELSE dst[i]]

\* o.NotifyUpdate(), called when the parameters are those of o
NotifyUpdateSilent(note, o) == note
NotifyUpdate(note, o) == [n |-> note.n + 1, seen |-> Params(o)]

\* what every method leaves alone
PrFrame == UNCHANGED <<nlsVars, odeVars, graphVars, jacVars>>

\* a method that returns: o is the object it leaves, note the notifications
PrReturns(op, skip, o, note) ==
    /\ pr' = o
    /\ prPc' = "ready"
    /\ prLast' = [kind |-> op, skip |-> skip]
    /\ prNote' = note
    /\ PrFrame

\* a method that panics on an index out of range
PrPanics(op, note) ==
    /\ prPc' = "panic"
    /\ prLast' = [kind |-> op, skip |-> FALSE]
    /\ prNote' = note
    /\ UNCHANGED <<pr, prBkp>>
    /\ PrFrame

ParamsRegInit(nFeatures) ==
    /\ prPc = "new"
    /\ PrReturns("init", FALSE,
                 [pr EXCEPT !.theta = NewVector(nFeatures), !.bkpTheta = NewVector(nFeatures)],
                 NoteZero)
    /\ UNCHANGED prBkp

Backup ==
    /\ prPc = "ready"
    /\ PrReturns("backup", FALSE,
                 [pr EXCEPT !.bkpTheta = Copy(pr.bkpTheta, pr.theta),
                            !.bkpBias = pr.bias,
                            !.bkpLambda = pr.lambda,
                            !.bkpDegree = pr.degree],
                 NoteZero)
    /\ prBkp' = [taken |-> TRUE, params |-> Params(pr)]

Restore(skipNotification) ==
    /\ prPc = "ready"
    /\ LET o == [pr EXCEPT !.theta = Copy(pr.theta, pr.bkpTheta),
                           !.bias = pr.bkpBias,
                           !.lambda = pr.bkpLambda,
                           !.degree = pr.bkpDegree]
       IN  PrReturns("restore", skipNotification, o,
                     IF ~skipNotification THEN NotifyUpdate(NoteZero, o) ELSE NoteZero)
    /\ UNCHANGED prBkp

SetParams(theta, b) ==
    /\ prPc = "ready"
    /\ LET o == [pr EXCEPT !.theta = Copy(pr.theta, theta), !.bias = b]
       IN  PrReturns("set", FALSE, o, NotifyUpdate(NoteZero, o))
    /\ UNCHANGED prBkp

\* i counts from 0 as in the code; the deferred NotifyUpdate runs when the
\* method returns and when it panics
SetParam(i, value) ==
    /\ prPc = "ready"
    /\ IF i < 0
       THEN LET o == [pr EXCEPT !.bias = value]
            IN  PrReturns("set", FALSE, o, NotifyUpdate(NoteZero, o)) /\ UNCHANGED prBkp
       ELSE IF i < Len(pr.theta)
            THEN LET o == [pr EXCEPT !.theta[i + 1] = value]
                 IN  PrReturns("set", FALSE, o, NotifyUpdate(NoteZero, o)) /\ UNCHANGED prBkp
            ELSE PrPanics("set", NotifyUpdate(NoteZero, pr))

\* a method that reads: GetParam, GetThetas, GetTheta, GetBias, GetLambda,
\* GetDegree
PrGet(i) ==
    /\ prPc = "ready"
    /\ IF 0 <= i /\ i >= Len(pr.theta)
       THEN PrPanics("get", NoteZero)
       ELSE PrReturns("get", FALSE, pr, NoteZero) /\ UNCHANGED prBkp

GetParam(i) == PrGet(i)
GetThetas == PrGet(0 - 1)
GetTheta(i) == i >= 0 /\ PrGet(i)
GetBias == PrGet(0 - 1)
GetLambda == PrGet(0 - 1)
GetDegree == PrGet(0 - 1)

\* theta has the length of o.theta
SetThetas(theta) ==
    /\ prPc = "ready"
    /\ Len(theta) = Len(pr.theta)
    /\ LET o == [pr EXCEPT !.theta = [i \in 1 .. Len(pr.theta) |-> 1 * theta[i]]]
       IN  PrReturns("set", FALSE, o, NotifyUpdate(NoteZero, o))
    /\ UNCHANGED prBkp

SetTheta(i, thetai) ==
    /\ prPc = "ready"
    /\ i >= 0
    /\ IF i < Len(pr.theta)
       THEN LET o == [pr EXCEPT !.theta[i + 1] = thetai]
            IN  PrReturns("set", FALSE, o, NotifyUpdate(NoteZero, o)) /\ UNCHANGED prBkp
       ELSE PrPanics("set", NoteZero)

SetBias(b) ==
    /\ prPc = "ready"
    /\ LET o == [pr EXCEPT !.bias = b]
       IN  PrReturns("set", FALSE, o, NotifyUpdate(NoteZero, o))
    /\ UNCHANGED prBkp

SetLambda(lambda) ==
    /\ prPc = "ready"
    /\ LET o == [pr EXCEPT !.lambda = lambda]
       IN  PrReturns("set", FALSE, o, NotifyUpdate(NoteZero, o))
    /\ UNCHANGED prBkp

SetDegree(p) ==
    /\ prPc = "ready"
    /\ LET o == [pr EXCEPT !.degree = p]
       IN  PrReturns("set", FALSE, o, NotifyUpdate(NoteZero, o))
    /\ UNCHANGED prBkp

\* json.Unmarshal into jsonType: a field the string does not name keeps its
\* zero value, Theta the nil vector; js.ok is FALSE for a string that cannot
\* be decoded
Unmarshal(js) ==
    [Theta |-> IF "Theta" \in DOMAIN js.fields THEN js.fields.Theta ELSE <<>>,
     Bias |-> IF "Bias" \in DOMAIN js.fields THEN js.fields.Bias ELSE 0,
     Lambda |-> IF "Lambda" \in DOMAIN js.fields THEN js.fields.Lambda ELSE 0,
     Degree |-> IF "Degree" \in DOMAIN js.fields THEN js.fields.Degree ELSE 0]

SetJSONTheta(o, input) == input.Theta

SetJSON(js) ==
    /\ prPc = "ready"
    /\ IF ~js.ok
       THEN PrPanics("set", NoteZero)
       ELSE LET input == Unmarshal(js)
                o == [pr EXCEPT !.theta = SetJSONTheta(pr, input),
                                !.bias = input.Bias,
                                !.lambda = input.Lambda,
                                !.degree = input.Degree]
            IN  PrReturns("set", FALSE, o, NotifyUpdate(NoteZero, o)) /\ UNCHANGED prBkp

\* the JSON strings: one that cannot be decoded, the objects that name Theta
\* alone, one of the three numbers alone, or Theta and the three numbers
JsonStrings ==
    {[ok |-> FALSE, fields |-> [Bias |-> 0]]}
    \cup {[ok |-> TRUE, fields |-> [Theta |-> th]] : th \in ThetaVecs}
    \cup {[ok |-> TRUE, fields |-> [Bias |-> 1]], [ok |-> TRUE, fields |-> [Lambda |-> 1]],
          [ok |-> TRUE, fields |-> [Degree |-> 1]]}
    \cup {[ok |-> TRUE, fields |-> [Theta |-> th, Bias |-> v, Lambda |-> v, Degree |-> v]] :
             th \in ThetaVecs, v \in PrmVals}

PrIndices == (0 - 1) .. MaxFeatures

ParamsRegNext ==
    \/ \E nFeatures \in 1 .. MaxFeatures : ParamsRegInit(nFeatures)
    \/ Backup
    \/ \E skipNotification \in BOOLEAN : Restore(skipNotification)
    \/ \E theta \in ThetaVecs, b \in PrmVals : SetParams(theta, b)
    \/ \E i \in PrIndices, value \in PrmVals : SetParam(i, value)
    \/ \E i \in PrIndices : GetParam(i)
    \/ \E theta \in ThetaVecs : SetThetas(theta)
    \/ GetThetas
    \/ \E i \in PrIndices, thetai \in PrmVals : SetTheta(i, thetai)
    \/ \E i \in PrIndices : GetTheta(i)
    \/ \E b \in PrmVals : SetBias(b)
    \/ GetBias
    \/ \E lambda \in PrmVals : SetLambda(lambda)
    \/ GetLambda
    \/ \E p \in PrmVals : SetDegree(p)
    \/ GetDegree
    \/ \E js \in JsonStrings : SetJSON(js)

(***************************************************************************)
(* The Jacobian assembled by the workers of a communicator                 *)
(***************************************************************************)

JacRows == 0 .. Ndim - 1
JacEntries == JacRows \X JacRows

\* the entry J[row][col] of the full Jacobian, one value for each entry
JacEntry(row, col) == 1 + row * Ndim + col

JacZero ==
    [sz |-> 0, called |-> {}, puts |-> [rc \in JacEntries |-> 0],
     sum |-> [rc \in JacEntries |-> 0]]

\* the rows of worker id: start .. endp1 - 1
RowStart(id, sz, ndim) == (id * ndim) \div sz
RowEndp1Even(id, sz, ndim) == (id * ndim) \div sz + ndim \div sz
RowEndp1(id, sz, ndim) == ((id + 1) * ndim) \div sz

\* main starts on sz workers; the test does nothing on more than MaxSz
JacMain(sz) ==
    /\ jacPc = "new"
    /\ jac' = [JacZero EXCEPT !.sz = sz]
    /\ jacPc' = IF sz > MaxSz THEN "returned" ELSE "assembling"
    /\ UNCHANGED <<nlsVars, odeVars, graphVars, prVars>>

\* Jfcn on worker id: dfdx.Put(row, col, J[row][col]) for each of its rows;
\* the reduction adds the triplets of the workers
Jfcn(id) ==
    /\ jacPc = "assembling"
    /\ id \notin jac.called
    /\ LET mine == {rc \in JacEntries :
                       /\ RowStart(id, jac.sz, Ndim) <= rc[1]
                       /\ rc[1] < RowEndp1(id, jac.sz, Ndim)}
       IN  jac' = [jac EXCEPT
                      !.called = @ \cup {id},
                      !.puts = [rc \in JacEntries |-> IF rc \in mine THEN @[rc] + 1 ELSE @[rc]],
                      !.sum = [rc \in JacEntries |->
                                  IF rc \in mine THEN @[rc] + JacEntry(rc[1], rc[2]) ELSE @[rc]]]
    /\ UNCHANGED jacPc
    /\ UNCHANGED <<nlsVars, odeVars, graphVars, prVars>>

\* the complete matrix is there when every worker has contributed
JacGather ==
    /\ jacPc = "assembling"
    /\ jac.called = 0 .. jac.sz - 1
    /\ jacPc' = "gathered"
    /\ UNCHANGED jac
    /\ UNCHANGED <<nlsVars, odeVars, graphVars, prVars>>

JacNext ==
    \/ \E sz \in 1 .. MaxSz + 1 : JacMain(sz)
    \/ \E id \in 0 .. MaxSz - 1 : id < jac.sz /\ Jfcn(id)
    \/ JacGather

Init ==
    /\ nls = NlsZero
    /\ nlsPc = "new"
    /\ nlsLoc = LocZero
    /\ nlsRes = "none"
    /\ nlsIters = 0
    /\ nlsPrms = NoPrms
    /\ nlsHist = HistZero
    /\ sol = SolZero
    /\ solPc = "New"
    /\ Stat = StatZero
    /\ att = AttNone
    /\ solAtts = 0
    /\ solFails = 0
    /\ Out = OutZero
    /\ solLive = <<>>
    /\ graph = GraphZero
    /\ gPc = "new"
    /\ gPath = PathNone
    /\ gAdj = AdjNone
    /\ pr = ParamsRegZero
    /\ prPc = "new"
    /\ prLast = CallNone
    /\ prNote = NoteZero
    /\ prBkp = BkpNone
    /\ jac = JacZero
    /\ jacPc = "new"

NlsNext ==
    \/ NlsInitAny
    \/ NlsSolveBegin
    \/ NlsIterate
    \/ NlsFinish

OdeNext ==
    \/ OdeNewSolverAny
    \/ OdeSolveAny
    \/ OdeStep
    \/ OdeAccept
    \/ OdeReject

\* a program that configures a solver with any map of parameters and calls
\* Solve when the number of iterations is small
NlsPrmsNext ==
    \/ NlsInitPrms
    \/ nls.maxIt <= MaxMaxIt /\ NlsSolveBegin
    \/ NlsIterate
    \/ NlsFinish

\* a program that integrates once with a solver that saves its output
OdeOutNext ==
    \/ OdeNewSolverOut
    \/ solPc = "Idle" /\ OdeSolveAny
    \/ OdeStep
    \/ OdeAccept
    \/ OdeReject

\* a program that uses either solver, never both
SolversNext ==
    \/ solPc = "New" /\ NlsNext
    \/ nlsPc = "new" /\ OdeNext

\* a program that builds a graph, computes its distances and asks for a path;
\* Path changes nothing in the graph, so one call after another shows no more
\* than each call alone
GraphNext ==
    \/ GraphInitAny
    \/ ShortestPathsAny
    \/ ~gPath.called /\ PathAny

\* a program that builds a graph and asks for its adjacency lists
GraphAdjNext ==
    \/ GraphInitAdj
    \/ GetAdjacency

SpecNls == Init /\ [][NlsNext]_vars

SpecNlsPrms == Init /\ [][NlsPrmsNext]_vars

SpecNlsLis == Init /\ [][NlsLisNext]_vars

SpecOde == Init /\ [][OdeNext]_vars

SpecOdeOut == Init /\ [][OdeOutNext]_vars

SpecSolvers == Init /\ [][SolversNext]_vars

SpecGraph == Init /\ [][GraphNext]_vars

SpecGraphAdj == Init /\ [][GraphAdjNext]_vars

SpecParamsReg == Init /\ [][ParamsRegNext]_vars

SpecJac == Init /\ [][JacNext]_vars

\* the step loop of one integration runs on until Solve ends
SpecOdeLive == Init /\ [][OdeNext]_vars /\ WF_vars(OdeStep \/ OdeAccept \/ OdeReject)

(***************************************************************************)
(* Properties                                                              *)
(***************************************************************************)

InSolve == solPc \in {"Stepping", "Accepted", "Rejected", "Converged", "Failed"}

\* a step of the step loop, as opposed to the start of a new Solve call
NewSolveCall == solPc \in {"Idle", "Converged", "Failed"} /\ solPc' = "Stepping"

C3_AcceptIffErrLeOne ==
    [][ /\ (solPc = "Stepping" /\ ~sol.fixed /\ att'.kind \in {"ok", "error"}
              /\ solPc' \in {"Accepted", "Rejected"})
            => ((solPc' = "Accepted") <=> (att'.err <= 1))
        /\ (solPc = "Rejected" /\ att.kind = "error" /\ solPc' = "Stepping")
            => (sol'.x = sol.x /\ sol'.h < sol.h)
      ]_vars

\* an adaptive attempt accepted with an error estimate of exactly 1, after a
\* rejection
C3_Witness ==
    /\ solPc = "Accepted" /\ ~sol.fixed /\ att.err = 1
    /\ Stat.Nrejected >= 1

NewtonFailure == solPc = "Stepping" /\ solPc' = "Rejected" /\ att'.kind = "newton"

C6_Counters ==
    /\ [](Stat.Naccepted + Stat.Nrejected <= Stat.Nsteps)
    /\ [](Stat.Nsteps = solAtts)
    /\ [][ ~NewSolveCall
            => /\ Stat'.Nsteps >= Stat.Nsteps
               /\ Stat'.Naccepted >= Stat.Naccepted
               /\ Stat'.Nrejected >= Stat.Nrejected
               /\ Stat'.Nsteps <= Stat.Nsteps + 1 ]_vars

\* an adaptive Solve that converged with one step more than accepted and
\* rejected attempts (as in TestOde03: 17 steps, 15 accepted, 1 rejected)
C6_Witness ==
    /\ solPc = "Converged" /\ ~sol.fixed
    /\ Stat.Naccepted >= 2
    /\ Stat.Nsteps = Stat.Naccepted + Stat.Nrejected + 1

\* C7: the statistics are reset at the start of every Solve: before the first
\* iteration of each call NFeval = 1, NJeval = 0, It = 0, and the counters never
\* exceed the work of the current call (NlSolver and ode Solver)
C7_StatsReset ==
    /\ (nlsPc = "loop" /\ nlsIters = 0)
          => (nls.NFeval = 1 /\ nls.NJeval = 0 /\ nls.It = 0)
    /\ nlsPc \in {"loop", "after", "done"}
          => /\ nls.It <= nlsIters
             /\ nls.NJeval <= nlsIters
             /\ nls.NFeval <= 1 + nlsIters * (1 + nls.neq + MaxNfv)
    /\ InSolve
          => /\ Stat.Nsteps = solAtts
             /\ Stat.Naccepted + Stat.Nrejected <= solAtts

\* the start of a later Solve call on a solver whose linear solver was set up
\* by an earlier call
C7_Witness ==
    /\ nlsPc = "loop" /\ nlsIters = 0 /\ nls.lsReady
    /\ nls.NFeval = 1 /\ nls.NJeval = 0

\* an iteration of the loop of NlSolver.Solve that got past the first test
NlsUpdateStep ==
    /\ nlsPc = "loop" /\ nlsIters' = nlsIters + 1
    /\ nlsLoc'.conv # "fxMax(ini)"

\* C9: Solve panics with "cannot converge" exactly when maxIt iterations ran
\* to their end and none met a convergence test; when a test is met, also at
\* the last permitted iteration, Solve returns normally
C9_CannotConverge ==
    nlsPc = "done" =>
       /\ nlsRes = "cannot converge" => (nls.It = nls.maxIt /\ nlsLoc.conv = "")
       /\ nlsRes = "cannot converge" => nlsIters = nls.maxIt
       /\ (nlsIters = nls.maxIt /\ nlsLoc.conv = "" /\ nlsRes # "diverging")
             => nlsRes = "cannot converge"
       /\ nlsLoc.conv # "" => nlsRes = "ok"

\* the tolerance met at the last permitted iteration
C9_Witness ==
    /\ nlsPc = "done" /\ nlsRes = "ok"
    /\ nls.maxIt >= 2 /\ nls.It = nls.maxIt - 1 /\ nlsIters = nls.maxIt
    /\ nlsLoc.conv \in {"fxMax", "Ldx", "Ldx(linsrch)"}

\* C10 (as stated): whenever at an iteration k >= 1 the ratio Θ exceeds 0.99
\* the solver panics in that iteration
C10_Original ==
    [][ (NlsUpdateStep /\ nls.It >= 1
            /\ 100 * nlsLoc'.Ldx > 99 * nlsLoc.LdxPrev)
          => nlsRes' = "diverging" ]_vars

\* C10 (amended): an iteration panics with the divergence error exactly when
\* chkConv is on, It >= 1, none of its convergence tests passed and Θ > 0.99;
\* the panic ends Solve in that iteration: It is not advanced and nothing but
\* a new call of Solve follows
C10_DivergenceGuard ==
    [][ /\ NlsUpdateStep
            => ((nlsRes' = "diverging") <=>
                  (nls.chkConv /\ nls.It >= 1 /\ nlsLoc'.conv = ""
                     /\ 100 * nlsLoc'.Ldx > 99 * nlsLoc.LdxPrev))
        /\ (nlsRes' = "diverging" /\ nlsRes # "diverging")
            => (NlsUpdateStep /\ nlsPc' = "done" /\ nls'.It = nls.It)
        /\ nlsRes = "diverging"
            => (nlsPc = "done" /\ nlsPc' = "loop" /\ nlsIters' = 0)
      ]_vars

\* a Solve ended by the divergence panic
C10_Witness ==
    /\ nlsPc = "done" /\ nlsRes = "diverging"
    /\ nls.chkConv /\ nls.It >= 1

\* the solver went through Init
NlsInitCalled == nlsPc # "new"

\* m is the value v (in halves) with its fraction cut off
IsTruncOf(m, v) ==
    IF v >= 0 THEN 2 * m <= v /\ v < 2 * m + 2
    ELSE 2 * m >= v /\ v > 2 * m - 2

\* C11: Init panics exactly for the maps of parameters with a name outside the
\* accepted ones, and then no step of Solve has run or runs; for a map of
\* accepted names Init succeeds and every field holds the value supplied for
\* it (a flag is v > 0, a count is int(v)), or its default if none is
C11_UnknownPrmRejected ==
    NlsInitCalled =>
       /\ (nlsPc = "panic") <=> (\E k \in DOMAIN nlsPrms : k \notin PrmKeys)
       /\ nlsPc = "panic"
             => /\ nlsRes = "invalid parameter"
                /\ nlsIters = 0 /\ nls.NFeval = 0 /\ nls.NJeval = 0
       /\ nlsPc # "panic"
             => /\ \A k \in {"cteJac", "linSearch", "chkConv"} :
                      nls[k] = (k \in DOMAIN nlsPrms /\ nlsPrms[k] > 0)
                /\ \A k \in {"linSchMaxIt", "maxIt"} :
                      IF k \in DOMAIN nlsPrms THEN IsTruncOf(nls[k], nlsPrms[k])
                      ELSE nls[k] = 20
                /\ \A k \in {"atol", "rtol", "ftol"} :
                      nls[k] = IF k \in DOMAIN nlsPrms THEN nlsPrms[k] ELSE DefTol

\* a Solve on a solver configured with three accepted parameters, two of which
\* differ from the defaults
C11_Witness ==
    /\ nlsPc = "done"
    /\ DOMAIN nlsPrms = {"maxIt", "linSearch", "atol"}
    /\ nls.maxIt = 1 /\ nls.linSearch /\ nls.atol = 3 /\ nls.rtol = DefTol

\* C12 (as stated): no Solve runs with a tolerance atol <= 0 or rtol <= 0: Init
\* with such a tolerance is a configuration error
C12_Original ==
    nlsPc \in {"loop", "after", "done"} => (nls.atol > 0 /\ nls.rtol > 0)

\* the number of steps of size h that cover the interval of the current Solve
\* exactly, h being the step Solve starts with
CoversInterval(n) ==
    LET d == sol.xf - sol.x0 IN n * (IF sol.IniH < d THEN sol.IniH ELSE d) = d

\* C15: forward Euler with a fixed step: one function evaluation per step and
\* nothing else is counted: Nfeval = Nsteps, Naccepted = Nrejected = 0,
\* Njeval = Ndecomp = Nlinsol = Nitmax = 0, and Solve ends after the n steps
\* that cover [x0, xf]
C15_FwEulerStats ==
    (InSolve /\ sol.method = "fweuler")
       => /\ Stat.Nfeval = Stat.Nsteps
          /\ Stat.Naccepted = 0 /\ Stat.Nrejected = 0
          /\ Stat.Njeval = 0 /\ Stat.Ndecomp = 0
          /\ Stat.Nlinsol = 0 /\ Stat.Nitmax = 0
          /\ solPc # "Failed"
          /\ solPc = "Converged" => CoversInterval(Stat.Nsteps)

\* a Solve of forward Euler that ended after three steps
C15_Witness ==
    /\ solPc = "Converged" /\ sol.method = "fweuler"
    /\ Stat.Nsteps = 3 /\ Stat.Nfeval = 3 /\ sol.x = sol.xf

C17_AdaptiveStats ==
    /\ []((InSolve /\ ~sol.fixed) => Stat.Nsteps = solAtts)
    /\ [][(solPc = "Stepping" /\ ~sol.fixed /\ solAtts' = solAtts + 1)
            => /\ Stat'.Nsteps = Stat.Nsteps + 1
               /\ solPc' \in {"Accepted", "Rejected", "Failed"}
               /\ Stat'.Naccepted
                     = Stat.Naccepted + (IF solPc' = "Accepted" THEN 1 ELSE 0)]_vars
    /\ []((solPc \in {"Converged", "Failed"} /\ ~sol.fixed /\ att.kind # "fatal"
              /\ Stat.Nrejected = 0 /\ solFails = 0)
            => Stat.Naccepted = Stat.Nsteps)
    /\ []((InSolve /\ sol.method \in {"moeuler", "dopri5"})
            => /\ Stat.Njeval = 0 /\ Stat.Ndecomp = 0
               /\ Stat.Nlinsol = 0 /\ Stat.Nitmax = 0)

\* an adaptive Solve of Dormand-Prince that ended with every attempt accepted
C17_Witness ==
    /\ solPc = "Converged" /\ sol.method = "dopri5" /\ ~sol.fixed
    /\ Stat.Nsteps >= 2 /\ Stat.Naccepted = Stat.Nsteps /\ Stat.Nrejected = 0
    /\ Stat.Nfeval = 6 * Stat.Nsteps + 2

\* C14: the step output holds exactly one (x, y, h) for every accepted step,
\* in the order of acceptance and with strictly increasing x; a step of the
\* loop either leaves it as it is or, on acceptance, appends the accepted
\* triple; an attempt that is rejected or in which the corrector fails leaves
\* it as it is
C14_StepOutput ==
    /\ [](InSolve => Len(Out.Step) = sol.y)
    /\ []((InSolve /\ ~sol.fixed /\ solPc # "Accepted")
            => Len(Out.Step) = Stat.Naccepted)
    /\ [](\A i \in 1 .. Len(Out.Step) - 1 : Out.Step[i][1] < Out.Step[i + 1][1])
    /\ [][ ~NewSolveCall
            => \/ Out'.Step = Out.Step
               \/ /\ solPc = "Accepted"
                  /\ Len(Out'.Step) = Len(Out.Step) + 1
                  /\ SubSeq(Out'.Step, 1, Len(Out.Step)) = Out.Step
                  /\ Out'.Step[Len(Out'.Step)] = <<sol.x + sol.h, sol'.y, sol.h>>
          ]_vars
    /\ [][ (solPc \in {"Stepping", "Rejected"}) => (Out'.Step = Out.Step) ]_vars

\* two accepted steps saved after an attempt that was rejected on its error
\* estimate and one in which the corrector failed
C14_Witness ==
    /\ Len(Out.Step) = 2 /\ sol.y = 2
    /\ Stat.Nrejected >= 1 /\ solFails >= 1

GVerts == 0 .. graph.nv - 1

\* the edge Key2edge gives for the vertices (i, j): the last one of the list
GetEdge(g, i, j) ==
    CHOOSE k \in 1 .. Len(g.Edges) :
        /\ g.Edges[k] = <<i, j>>
        /\ \A l \in k + 1 .. Len(g.Edges) : g.Edges[l] # <<i, j>>

HasEdge(g, i, j) == \E k \in 1 .. Len(g.Edges) : g.Edges[k] = <<i, j>>

MinOf(S) == CHOOSE x \in S : \A y \in S : x <= y

\* the least total weight of the directed paths of at most n edges from i to
\* j, MaxFloat64 when there is none
RECURSIVE MinWalk(_, _, _, _)
MinWalk(g, i, j, n) ==
    IF n = 0 THEN (IF i = j THEN 0 ELSE MaxFloat64)
    ELSE MinOf({MinWalk(g, i, j, n - 1)} \cup
               {MinWalk(g, i, g.Edges[k][1], n - 1) + EdgeDist(g, k) :
                   k \in {l \in 1 .. Len(g.Edges) :
                             /\ g.Edges[l][2] = j
                             /\ MinWalk(g, i, g.Edges[l][1], n - 1) < MaxFloat64}})

\* a directed path of at least one edge goes from s to t
Connected(g, s, t) ==
    \E k \in 1 .. Len(g.Edges) :
        /\ g.Edges[k][1] = s
        /\ MinWalk(g, g.Edges[k][2], t, g.nv) < MaxFloat64

\* at most one edge from a vertex to another, none from a vertex to itself:
\* the graph is a table of weights w(i -> j) with zeros on its diagonal
SimpleGraph(g) ==
    /\ \A k \in 1 .. Len(g.Edges) : g.Edges[k][1] # g.Edges[k][2]
    /\ \A k, l \in 1 .. Len(g.Edges) : g.Edges[k] = g.Edges[l] => k = l

DistIsMinimum ==
    \A i \in GVerts, j \in GVerts : graph.Dist[<<i, j>>] = MinWalk(graph, i, j, graph.nv)

\* C19 as stated: after ShortestPaths("FW") on any graph of non-negative
\* weights, Dist[i][j] is the least total weight of the directed paths from i
\* to j, 0 when i = j and MaxFloat64 when there is no path
C19_Original == gPc = "solved" => DistIsMinimum

\* C19: after ShortestPaths("FW") on a graph of non-negative weights with at
\* most one edge from a vertex to another and no edge from a vertex to itself,
\* Dist[i][j] is the least total weight of the directed paths from i to j: 0
\* when i = j, MaxFloat64 when there is no path
C19_DistIsShortest == (gPc = "solved" /\ SimpleGraph(graph)) => DistIsMinimum

\* a graph where the path by another vertex is shorter than the edge, and
\* where a vertex cannot be reached from another
C19_Witness ==
    /\ gPc = "solved"
    /\ SimpleGraph(graph)
    /\ \E i \in GVerts, j \in GVerts :
           /\ HasEdge(graph, i, j)
           /\ graph.Dist[<<i, j>>] < EdgeDist(graph, GetEdge(graph, i, j))
    /\ \E i \in GVerts, j \in GVerts : graph.Dist[<<i, j>>] = MaxFloat64

\* the total weight of the edges between the consecutive vertices of p
RECURSIVE PathWeight(_, _)
PathWeight(g, p) ==
    IF Len(p) <= 1 THEN 0
    ELSE EdgeDist(g, GetEdge(g, p[1], p[2])) + PathWeight(g, Tail(p))

\* p goes from s to t along edges and its weight is Dist[s][t]
IsShortestPath(g, p, s, t) ==
    /\ Len(p) >= 1
    /\ p[1] = s
    /\ p[Len(p)] = t
    /\ \A n \in 1 .. Len(p) - 1 : HasEdge(g, p[n], p[n + 1])
    /\ PathWeight(g, p) = g.Dist[<<s, t>>]

PathIsRight ==
    /\ gPath.end = "ok"
    /\ IF Connected(graph, gPath.s, gPath.t)
       THEN IsShortestPath(graph, gPath.p, gPath.s, gPath.t)
       ELSE gPath.p = <<>>

\* C20 as stated: after ShortestPaths, Path(s, t) ends, returns the empty
\* path when no directed path of at least one edge goes from s to t, and
\* otherwise a path from s to t along edges whose total weight is Dist[s][t]
C20_Original == gPath.called => PathIsRight

\* C20: after ShortestPaths, Path(s, t) always ends; with s # t it returns
\* the empty path when no directed path goes from s to t, and otherwise a path
\* from s to t along edges whose total weight is Dist[s][t], the weight of a
\* pair of vertices being that of the edge GetEdge gives
C20_PathIsShortest ==
    gPath.called =>
        /\ gPath.end = "ok"
        /\ gPath.s # gPath.t => PathIsRight

\* a path of two edges was returned although an edge goes from s to t
C20_Witness ==
    /\ gPath.called
    /\ gPath.s # gPath.t
    /\ Len(gPath.p) = 3
    /\ HasEdge(graph, gPath.s, gPath.t)

(***************************************************************************)
(* ml.ParamsReg: backup, restore and notifications                         *)
(***************************************************************************)

\* C21 as stated: after Backup, any sequence of Set... calls followed by
\* Restore leaves theta, bias, lambda and degree as they were at the time of
\* Backup
C21_Original ==
    (prPc = "ready" /\ prLast.kind = "restore" /\ prBkp.taken) => Params(pr) = prBkp.params

PrNotifies == prLast.kind = "set" \/ (prLast.kind = "restore" /\ ~prLast.skip)
PrSilent == prLast.kind \in {"backup", "get"} \/ (prLast.kind = "restore" /\ prLast.skip)

\* C22: a Set... method and Restore(false), when they return, have notified
\* the observers once, and the observers found the parameters the method
\* leaves; Backup, the Get... methods and Restore(true) have sent no
\* notification, and Backup and Get... change no parameter
C22_NotifiesOnce ==
    /\ [](prPc = "ready" =>
            /\ PrNotifies => (prNote.n = 1 /\ prNote.seen = Params(pr))
            /\ PrSilent => prNote.n = 0)
    /\ [][(prLast'.kind \in {"backup", "get"}) => (Params(pr') = Params(pr))]_vars

\* Restore(false) has brought back the parameters of a backup and notified
C22_Witness ==
    /\ prPc = "ready"
    /\ prLast.kind = "restore" /\ ~prLast.skip
    /\ prBkp.taken
    /\ pr.bias = 1 /\ pr.lambda = 1
    /\ prNote.n = 1

(***************************************************************************)
(* The distributed Jacobian                                                *)
(***************************************************************************)

\* C23: the row ranges of the workers are disjoint (no entry is put twice),
\* and once every worker has contributed, in whatever order, every entry was
\* put by exactly one worker and the gathered matrix is the full Jacobian
C23_RowsPartitioned ==
    /\ \A rc \in JacEntries : jac.puts[rc] <= 1
    /\ jacPc = "gathered" =>
           \A rc \in JacEntries :
               /\ jac.puts[rc] = 1
               /\ jac.sum[rc] = JacEntry(rc[1], rc[2])

\* four workers, whose ranges have one or two rows
C23_Witness ==
    /\ jacPc = "gathered"
    /\ jac.sz = 4
    /\ jac.sum[<<5, 5>>] = JacEntry(5, 5)

(***************************************************************************)
(* ode.Solver: the control states                                          *)
(***************************************************************************)

\* the transitions of one Solve call
OdeTransitions ==
    {<<"Idle", "Stepping">>, <<"Stepping", "Accepted">>, <<"Stepping", "Rejected">>,
     <<"Stepping", "Failed">>, <<"Accepted", "Stepping">>, <<"Accepted", "Converged">>,
     <<"Rejected", "Stepping">>, <<"Rejected", "Failed">>}

NlsInSolve == nlsPc \in {"loop", "after", "done"}
MinOfTwo(a, b) == IF a < b THEN a ELSE b

\* C25 as stated: with cteJac a Solve evaluates and factorises the Jacobian
\* once, at the first iteration; without it, at every iteration
C25_Original ==
    NlsInSolve =>
        IF nls.cteJac
        THEN /\ nlsHist.work.jacs = MinOfTwo(1, nlsHist.work.updates)
             /\ nlsHist.work.facts = MinOfTwo(1, nlsHist.work.updates)
        ELSE /\ nlsHist.work.jacs = nlsHist.work.updates
             /\ nlsHist.work.facts = nlsHist.work.updates

\* C25: with cteJac a Solve evaluates the Jacobian once, at the first
\* iteration, and factorises it again in every iteration; without cteJac it
\* evaluates and factorises the Jacobian in every iteration
C25_JacobianOnce ==
    NlsInSolve =>
        /\ nlsHist.work.facts = nlsHist.work.updates
        /\ nlsHist.work.jacs = IF nls.cteJac THEN MinOfTwo(1, nlsHist.work.updates)
                               ELSE nlsHist.work.updates
        /\ nls.NJeval = nlsHist.work.jacs

\* a Solve with a constant Jacobian that went through two iterations
C25_Witness ==
    /\ nlsPc = "done"
    /\ nls.cteJac
    /\ nlsHist.work.updates = 2
    /\ nlsHist.work.jacs = 1
    /\ nlsHist.work.facts = 2

\* C26: with the sparse solver and no JfcnSp, Init sets numJ whatever was
\* passed; in a Solve NFeval is 1 for the residual on entry, 1 for every
\* update of x, neq for every numerical Jacobian and the evaluations of the
\* line searches, and NJeval is the number of Jacobian evaluations
C26_NumericalJacobian ==
    /\ (nlsPc \in {"idle", "loop", "after", "done"} /\ ~nls.useDn /\ ~nlsHist.hasJfcnSp)
           => nls.numJ
    /\ NlsInSolve =>
           /\ nls.NFeval = 1 + nlsHist.work.updates + nlsHist.work.nfvs
                             + (IF ~nls.useDn /\ nls.numJ
                                THEN nls.neq * nlsHist.work.jacs ELSE 0)
           /\ nls.NJeval = nlsHist.work.jacs

\* numJ was passed false and no JfcnSp: two numerical Jacobians of two
\* equations and a line search were counted
C26_Witness ==
    /\ nlsPc = "done"
    /\ ~nls.useDn /\ ~nlsHist.hasJfcnSp /\ ~nlsHist.numJArg
    /\ nls.neq = 2
    /\ nlsHist.work.jacs = 2
    /\ nlsHist.work.nfvs >= 1
    /\ nls.NFeval = 3 + 4 + nlsHist.work.nfvs

\* C27 as stated: every call of Fact and Solve of the sparse linear solver is
\* made on a handle that was acquired, for the present dimension, and has not
\* been released since
C27_Original == nlsHist.lisOn \subseteq {"acquired"}

\* C28 as stated: Solve returns normally only if the Ldx of its last iteration
\* is below fnewt
C28_Original == nlsRes = "ok" => (nlsHist.work.updates >= 1 /\ nlsLoc.Ldx < FNewt)

\* C28: Solve returns normally only if it made no iteration because maxIt is
\* negative, or max|f_i(x)| is below ftol on entry or after the update of its
\* last iteration, or the Ldx of its last iteration is below fnewt
C28_ConvergedOnFxOrLdx ==
    nlsRes = "ok" =>
        \/ nls.maxIt < 0 /\ nlsIters = 0
        \/ nlsLoc.fxMax < Ftol
        \/ nlsHist.work.updates >= 1 /\ nlsLoc.Ldx < FNewt

\* a Solve that returned after two iterations on the residual, with Ldx
\* above fnewt
C28_Witness ==
    /\ nlsRes = "ok"
    /\ nlsHist.work.updates = 2
    /\ nlsLoc.fxMax < Ftol
    /\ nlsLoc.Ldx >= FNewt

\* C29: a Solve entered with max|f_i(x)| < ftol and maxIt >= 1 returns
\* normally with x as it was, It = 0, NFeval = 1, NJeval = 0, no Jacobian
\* evaluated, the linear solver neither initialised nor called, and one call
\* of Out when Out is set
C29_ConvergedOnEntry ==
    (nlsPc = "done" /\ nlsHist.work.fx0 < Ftol /\ nls.ftol > 0 /\ nls.maxIt >= 1) =>
        /\ nlsRes = "ok"
        /\ nlsHist.work.updates = 0
        /\ nls.It = 0 /\ nls.NFeval = 1 /\ nls.NJeval = 0
        /\ nlsHist.work.jacs = 0 /\ nlsHist.work.facts = 0
        /\ nlsHist.work.acqs = 0 /\ nlsHist.work.lisCalls = 0
        /\ nlsHist.work.outs = (IF nlsHist.hasOut THEN 1 ELSE 0)

\* a second Solve, entered at the solution the first one found in two
\* iterations, with Out set
C29_Witness ==
    /\ nlsPc = "done"
    /\ nlsHist.work.fx0 < Ftol
    /\ nls.maxIt >= 1
    /\ nlsHist.hasOut
    /\ nlsHist.work.outs = 1
    /\ ~nls.useDn /\ nls.lsReady

(***************************************************************************)
(* graph.Graph: GetAdjacency                                               *)
(***************************************************************************)

\* the graph has the vertices 0 .. nv-1 and no edge from a vertex to itself
AdjPre(g) ==
    /\ DOMAIN g.Shares = 0 .. g.nv - 1
    /\ \A k \in 1 .. Len(g.Edges) : g.Edges[k][1] # g.Edges[k][2]

\* the edges that have v at one end, in the order of the list of edges
IncidentTo(g, v) ==
    SelectSeq([k \in 1 .. Len(g.Edges) |-> k],
              LAMBDA k : v \in {g.Edges[k][1], g.Edges[k][2]})

\* the end of edge k that is not v
OtherEnd(g, k, v) == CHOOSE u \in {g.Edges[k][1], g.Edges[k][2]} : u # v

\* the part of adjncy that belongs to v: adjncy[xadj[v] .. xadj[v+1]) of the
\* code
AdjOf(a, v) == SubSeq(a.adjncy, a.xadj[v + 1] + 1, a.xadj[v + 2])

CountIn(s, u) == Cardinality({i \in 1 .. Len(s) : s[i] = u})

\* C30: for a graph with the vertices 0 .. nv-1 and no self-loop,
\* GetAdjacency returns xadj of length nv+1 that starts at 0, never decreases
\* and ends at len(adjncy) = 2*nedges, and the part of adjncy of every vertex
\* v lists the other end of every edge at v, in the order of the edges, so
\* that u is in the list of v as often as v is in the list of u
C30_Adjacency ==
    (gAdj.called /\ AdjPre(graph)) =>
        /\ Len(gAdj.xadj) = graph.nv + 1
        /\ gAdj.xadj[1] = 0
        /\ \A v \in 0 .. graph.nv - 1 : gAdj.xadj[v + 1] <= gAdj.xadj[v + 2]
        /\ gAdj.xadj[graph.nv + 1] = Len(gAdj.adjncy)
        /\ Len(gAdj.adjncy) = 2 * Len(graph.Edges)
        /\ \A v \in 0 .. graph.nv - 1 :
               LET inc == IncidentTo(graph, v)
               IN  AdjOf(gAdj, v) = [n \in 1 .. Len(inc) |-> OtherEnd(graph, inc[n], v)]
        /\ \A u \in 0 .. graph.nv - 1, v \in 0 .. graph.nv - 1 :
               CountIn(AdjOf(gAdj, v), u) = CountIn(AdjOf(gAdj, u), v)

\* three vertices and three edges given out of order, two of them between the
\* same vertices
C30_Witness ==
    /\ gAdj.called
    /\ AdjPre(graph)
    /\ graph.Edges = <<<<2, 1>>, <<0, 1>>, <<1, 2>>>>
    /\ AdjOf(gAdj, 1) = <<2, 0, 2>>

====
